---- MODULE Spec2Model ----
(***************************************************************************)
(* Model of the WakaTime plugin for OpenCode: the configuration reader     *)
(* (Options), the CLI locator (Dependencies) and the activity batching and *)
(* heartbeat dispatcher (WakaTimeTracker).  The repository carries the     *)
(* classes twice: as modules (options.ts, dependencies.ts, tracker.ts) and *)
(* bundled into .opencode/plugin/wakatime.ts.  The variable build selects  *)
(* which of the two a behaviour runs; operators ending in B model the      *)
(* bundled plugin.                                                         *)
(*                                                                         *)
(* Strings are sequences of characters.  A word without blanks, brackets,  *)
(* '=' or newlines ("settings", "api_key", "ABC") is carried as one        *)
(* element: no string operation of the program cuts inside such a word.    *)
(***************************************************************************)
EXTENDS Integers, Sequences, FiniteSets, TLC

VARIABLES build, now, fs, initPhase, configCache, apiKey, cliLocation,
          fileEntities, lastHeartbeatAt, last, callbacks, ledger

vars == <<build, now, fs, initPhase, configCache, apiKey, cliLocation,
          fileEntities, lastHeartbeatAt, last, callbacks, ledger>>

(***************************************************************************)
(* Bounds of the model.                                                    *)
(***************************************************************************)
\* wall-clock seconds (Date.now() / 1000) when the tracker is constructed
StartNow == 100
\* the clock stops advancing here
MaxNow == 160
\* largest magnitude of an accumulated change count
MaxChanges == 2
\* largest line count a tracked file is read with
MaxLines == 1

\* the amounts of time that pass between two host callbacks
TickSteps == {59, 60}

(***************************************************************************)
(* Strings.                                                                *)
(***************************************************************************)
NL == "\n"
NUL == "NUL"
WhiteSpace == {" ", NL}

\* String.prototype.toLowerCase, per character
LowerChar(c) ==
  CASE c = "SETTINGS" -> "settings"
    [] c = "Settings" -> "settings"
    [] c = "OTHER" -> "other"
    [] OTHER -> c

toLowerCase(s) == [i \in 1..Len(s) |-> LowerChar(s[i])]

RECURSIVE trimStart(_)
trimStart(s) ==
  IF s # <<>> /\ Head(s) \in WhiteSpace THEN trimStart(Tail(s)) ELSE s

RECURSIVE trimEnd(_)
trimEnd(s) ==
  IF s # <<>> /\ s[Len(s)] \in WhiteSpace
  THEN trimEnd(SubSeq(s, 1, Len(s) - 1))
  ELSE s

\* String.prototype.trim
trim(s) == trimEnd(trimStart(s))

\* String.prototype.split(sep) for a one-character separator: the pieces
\* between the separators, always at least one piece
RECURSIVE splitFrom(_, _, _)
splitFrom(s, sep, piece) ==
  IF s = <<>> THEN <<piece>>
  ELSE IF Head(s) = sep
       THEN <<piece>> \o splitFrom(Tail(s), sep, <<>>)
       ELSE splitFrom(Tail(s), sep, Append(piece, Head(s)))

split(s, sep) == splitFrom(s, sep, <<>>)

(***************************************************************************)
(* Optional values: undefined, or a defined string.                        *)
(***************************************************************************)
undefined == [def |-> FALSE, val |-> <<>>]
Some(v) == [def |-> TRUE, val |-> v]
\* JavaScript truthiness of an optional string: defined and not empty
Truthy(o) == o.def /\ o.val # <<>>

(***************************************************************************)
(* Options (options.ts; bundled: class Options of the plugin).             *)
(***************************************************************************)
\* the states ~/.wakatime.cfg can be in when initialize runs
CfgAbsent == [state |-> "absent", content |-> <<>>]
CfgUnreadable == [state |-> "unreadable", content |-> <<>>]
CfgFile(text) == [state |-> "file", content |-> text]

\* "[settings]\napi_key = ABC\n"
TextKey == <<"[", "settings", "]", NL, "api_key", " ", "=", " ", "ABC", NL>>
\* "[SETTINGS]\ndebug = true\n api_key=A\0BC \n": upper-case section, a
\* null character inside the value
TextUpper == <<"[", "SETTINGS", "]", NL, "debug", " ", "=", " ", "true", NL,
               " ", "api_key", "=", "A", NUL, "BC", " ", NL>>
\* "[settings]\ndebug = true\n": the section without the key
TextNoKey == <<"[", "settings", "]", NL, "debug", " ", "=", " ", "true", NL>>
\* "[settings]\napi_key =\n": the key with an empty value
TextEmptyValue == <<"[", "settings", "]", NL, "api_key", " ", "=", NL>>
\* "[other]\napi_key = ABC\n": the key under another section
TextOtherSection == <<"[", "other", "]", NL, "api_key", " ", "=", " ", "ABC", NL>>
\* "[settings]\napi_key = a=b\n": a value with '=' in it
TextEqualsInValue ==
  <<"[", "settings", "]", NL, "api_key", " ", "=", " ", "a", "=", "b", NL>>
\* "api_key = ABC\n[other]\ndebug = true\n": the key before any section
TextNoSection ==
  <<"api_key", " ", "=", " ", "ABC", NL, "[", "other", "]", NL,
    "debug", " ", "=", " ", "true", NL>>
\* " \n": blanks only
TextBlank == <<" ", NL>>
\* "[other]\napi_key = X\n[Settings]\napi_key = ABC\n": the key in two
\* sections
TextTwoSections ==
  <<"[", "other", "]", NL, "api_key", " ", "=", " ", "X", NL,
    "[", "Settings", "]", NL, "api_key", " ", "=", " ", "ABC", NL>>
\* "[settings]\napi_key\n": the key without '='
TextKeyAlone == <<"[", "settings", "]", NL, "api_key", NL>>

\* the config files Options is followed with
OptionFiles ==
  {CfgAbsent, CfgUnreadable} \cup
  {CfgFile(t) : t \in {TextKey, TextUpper, TextNoKey, TextEmptyValue,
                       TextOtherSection, TextEqualsInValue, TextNoSection,
                       TextBlank, TextTwoSections, TextKeyAlone}}
\* the sections and keys its callers ask for
SectionNames == {<<"settings">>, <<"other">>}
KeyNames == {<<"api_key">>, <<"debug">>}

\* the config files initialize is run with
ConfigFiles == {CfgAbsent, CfgUnreadable, CfgFile(TextKey), CfgFile(TextNoKey)}

startsWith(outer, inner) == Len(outer) >= 1 /\ outer[1] = inner
endsWith(outer, inner) == Len(outer) >= 1 /\ outer[Len(outer)] = inner
removeNulls(s) == SelectSeq(s, LAMBDA c : c # NUL)
\* s.substring(1, s.length - 1)
innerOf(s) == SubSeq(s, 2, Len(s) - 1)

\* Options.loadConfigs of options.ts: the entry of configCache for the
\* config file and whether the call threw.  The adapter's readFile rejects on
\* an unreadable file; the try/catch swallows it.
loadConfigs(cfg) ==
  IF cfg.state = "file" THEN [cache |-> Some(cfg.content), threw |-> FALSE]
  ELSE [cache |-> undefined, threw |-> FALSE]

\* Options.loadConfigs of the plugin: its adapter's readFile answers "" for a
\* file it cannot read, and that is what gets cached.
loadConfigsB(cfg) ==
  IF cfg.state = "absent" THEN [cache |-> undefined, threw |-> FALSE]
  ELSE [cache |-> Some(cfg.content), threw |-> FALSE]

\* the line loop of Options.getSetting (options.ts)
RECURSIVE scanLines(_, _, _, _)
scanLines(lines, currentSection, section, key) ==
  IF lines = <<>> THEN undefined
  ELSE LET line == Head(lines)
           parts == split(line, "=")
       IN IF startsWith(trim(line), "[") /\ endsWith(trim(line), "]")
          THEN scanLines(Tail(lines), toLowerCase(innerOf(trim(line))), section, key)
          ELSE IF currentSection = section /\ trim(parts[1]) = key /\ Len(parts) > 1
               THEN Some(removeNulls(trim(parts[2])))
               ELSE scanLines(Tail(lines), currentSection, section, key)

\* getSetting taking the lines before the first header as lines of the
\* section asked for
getSettingFromStart(cache, section, key) ==
  IF ~Truthy(cache) THEN undefined
  ELSE IF trim(cache.val) = <<>> THEN undefined
  ELSE scanLines(split(cache.val, NL), section, section, key)

\* Options.getSetting (options.ts) on the cached content
getSetting(cache, section, key) ==
  IF ~Truthy(cache) THEN undefined
  ELSE IF trim(cache.val) = <<>> THEN undefined
  ELSE scanLines(split(cache.val, NL), <<>>, section, key)

\* the line loop of Options.getSetting (plugin): the trimmed line is split
\* and nulls are kept
RECURSIVE scanLinesB(_, _, _, _)
scanLinesB(lines, currentSection, section, key) ==
  IF lines = <<>> THEN undefined
  ELSE LET trimmed == trim(Head(lines))
           parts == split(trimmed, "=")
       IN IF startsWith(trimmed, "[") /\ endsWith(trimmed, "]")
          THEN scanLinesB(Tail(lines), toLowerCase(innerOf(trimmed)), section, key)
          ELSE IF currentSection = section /\ trim(parts[1]) = key /\ Len(parts) > 1
               THEN Some(trim(parts[2]))
               ELSE scanLinesB(Tail(lines), currentSection, section, key)

getSettingB(cache, section, key) ==
  IF ~Truthy(cache) THEN undefined
  ELSE scanLinesB(split(cache.val, NL), <<>>, section, key)

GetSettingOf(b, cache, section, key) ==
  IF b = "modular" THEN getSetting(cache, section, key)
  ELSE getSettingB(cache, section, key)

LoadConfigsOf(b, cfg) == IF b = "modular" THEN loadConfigs(cfg) ELSE loadConfigsB(cfg)

(***************************************************************************)
(* The file system and the paths.                                          *)
(***************************************************************************)
workingDirectory == "/w"
\* the file paths the host reports: one relative to the working directory
\* and one absolute
FilePaths == {"a.ts", "/w/b.ts"}
isAbsolute(p) == p # "a.ts"
\* path.join(workingDirectory, p) for the relative path
join(dir, p) == IF dir = "/w" /\ p = "a.ts" THEN "/w/a.ts" ELSE p
\* fullPath of trackFileEdit
fullPathOf(p) == IF isAbsolute(p) THEN p ELSE join(workingDirectory, p)
WorkFiles == {fullPathOf(p) : p \in FilePaths}

\* the candidate locations of the CLI, in the order they are checked
LocalCli == "/home/.wakatime/wakatime-cli"
BrewCli == "/opt/homebrew/bin/wakatime-cli"
OldBrewCli == "/usr/local/bin/wakatime-cli"
pathsToCheck == <<LocalCli, BrewCli, OldBrewCli>>
CliPaths == {pathsToCheck[i] : i \in 1..Len(pathsToCheck)}

\* adapter.exists: the process runs in the working directory, so a relative
\* path names the file under it
exists(fsx, p) == fullPathOf(p) \in fsx

(***************************************************************************)
(* Dependencies (dependencies.ts; bundled: class Dependencies).            *)
(***************************************************************************)
\* the value of the field cliLocation before any lookup
NoLocation == "<undefined>"
\* if (this.cliLocation): undefined and '' are both falsy
TruthyLoc(loc) == loc # NoLocation /\ loc # ""

\* getCliLocation checking the candidates in the reverse order
getCliLocationNoOrder(loc, fsx) ==
  IF TruthyLoc(loc) THEN [ret |-> loc, cliLocation |-> loc]
  ELSE IF exists(fsx, OldBrewCli) THEN [ret |-> OldBrewCli, cliLocation |-> OldBrewCli]
  ELSE IF exists(fsx, BrewCli) THEN [ret |-> BrewCli, cliLocation |-> BrewCli]
  ELSE IF exists(fsx, LocalCli) THEN [ret |-> LocalCli, cliLocation |-> LocalCli]
  ELSE [ret |-> "", cliLocation |-> ""]

\* getCliLocation treating a stored '' as a lookup already made
getCliLocationMissCached(loc, fsx) ==
  IF loc # NoLocation THEN [ret |-> loc, cliLocation |-> loc]
  ELSE IF exists(fsx, LocalCli) THEN [ret |-> LocalCli, cliLocation |-> LocalCli]
  ELSE IF exists(fsx, BrewCli) THEN [ret |-> BrewCli, cliLocation |-> BrewCli]
  ELSE IF exists(fsx, OldBrewCli) THEN [ret |-> OldBrewCli, cliLocation |-> OldBrewCli]
  ELSE [ret |-> "", cliLocation |-> ""]

\* Dependencies.getCliLocation (dependencies.ts): the value returned and the
\* field afterwards
getCliLocation(loc, fsx) ==
  IF TruthyLoc(loc) THEN [ret |-> loc, cliLocation |-> loc]
  ELSE IF exists(fsx, LocalCli) THEN [ret |-> LocalCli, cliLocation |-> LocalCli]
  ELSE IF exists(fsx, BrewCli) THEN [ret |-> BrewCli, cliLocation |-> BrewCli]
  ELSE IF exists(fsx, OldBrewCli) THEN [ret |-> OldBrewCli, cliLocation |-> OldBrewCli]
  ELSE [ret |-> "", cliLocation |-> ""]

\* the for loop of Dependencies.getCliLocation (plugin) from candidate i on
RECURSIVE firstExistingFrom(_, _)
firstExistingFrom(i, fsx) ==
  IF i > Len(pathsToCheck) THEN ""
  ELSE IF exists(fsx, pathsToCheck[i]) THEN pathsToCheck[i]
  ELSE firstExistingFrom(i + 1, fsx)

\* Dependencies.getCliLocation (plugin): a miss returns '' and leaves the
\* field as it was
getCliLocationB(loc, fsx) ==
  IF TruthyLoc(loc) THEN [ret |-> loc, cliLocation |-> loc]
  ELSE LET p == firstExistingFrom(1, fsx)
       IN [ret |-> p, cliLocation |-> IF p = "" THEN loc ELSE p]

GetCliLocationOf(b, loc, fsx) ==
  IF b = "modular" THEN getCliLocation(loc, fsx) ELSE getCliLocationB(loc, fsx)

\* Dependencies.isCliInstalled (dependencies.ts)
isCliInstalled(loc, fsx) ==
  LET r == getCliLocation(loc, fsx)
  IN [ret |-> r.ret # "" /\ exists(fsx, r.ret), cliLocation |-> r.cliLocation]

\* Dependencies.isCliInstalled (plugin)
isCliInstalledB(loc, fsx) ==
  LET r == getCliLocationB(loc, fsx)
  IN [ret |-> r.ret # "", cliLocation |-> r.cliLocation]

IsCliInstalledOf(b, loc, fsx) ==
  IF b = "modular" THEN isCliInstalled(loc, fsx) ELSE isCliInstalledB(loc, fsx)

(***************************************************************************)
(* WakaTimeTracker (tracker.ts; bundled: class WakaTimeTracker).           *)
(***************************************************************************)
\* the heartbeat threshold in seconds
HeartbeatInterval == 60
\* lastHeartbeatAt set to the time of construction
InitialLastHeartbeatAtNow == StartNow
\* lastHeartbeatAt of a new tracker
InitialLastHeartbeatAt == 0
\* the fallback change count of the plugin: lineChanges || 1
FallbackChangesB == 1

Operations == {"read", "write", "edit"}
\* the lineChanges hints a caller passes (0: none given)
LineChangeHints == {0, 2}
\* the hints of a caller that also reports lines taken away
SignedHints == LineChangeHints \cup {-1}
\* how the CLI process ends: exit 0, a nonzero exit the adapter reports in
\* stderr, or the adapter's exec rejecting
ExecOutcomes == {"ok", "nonzero", "reject"}
\* how the adapter calls made for one entity end under an adapter whose
\* exists may reject too: as above, or with the existence check rejecting
\* before any process is started
AdapterOutcomes == ExecOutcomes \cup {"existsReject"}

\* fileEntities is a Map; it is kept as the sequence of its entries in
\* insertion order
Entities(ents) == {ents[i].entity : i \in 1..Len(ents)}
\* this.fileEntities.get(e) || 0
getChanges(ents, e) ==
  IF e \in Entities(ents)
  THEN (CHOOSE x \in {ents[i] : i \in 1..Len(ents)} : x.entity = e).changes
  ELSE 0
\* set on a list instead of a Map: every call adds an entry
setChangesAppend(ents, e, c) == Append(ents, [entity |-> e, changes |-> c])

\* this.fileEntities.set(e, c): an existing key keeps its place
setChanges(ents, e, c) ==
  IF e \in Entities(ents)
  THEN [i \in 1..Len(ents) |->
          IF ents[i].entity = e THEN [entity |-> e, changes |-> c] ELSE ents[i]]
  ELSE Append(ents, [entity |-> e, changes |-> c])

\* shouldSendHeartbeat with the comparison taken strictly
shouldSendHeartbeatStrict(t, lastAt) == t - lastAt > HeartbeatInterval

\* WakaTimeTracker.shouldSendHeartbeat
shouldSendHeartbeat(t, lastAt) == t - lastAt >= HeartbeatInterval

\* WakaTimeTracker.clearEntities: the two fields afterwards
clearEntities(t) == [fileEntities |-> <<>>, lastHeartbeatAt |-> t]

\* WakaTimeTracker.calculateLineChanges: readLines is the number of lines
\* the file is read with, 0 when the read is rejected
calculateLineChanges(readLines) == readLines

\* the name of the environment variable the key travels in
KeyVariable == "WAKATIME_API_KEY"

\* an invocation that hands the key over on the command line
InvocationKeyAsArgument(cmd, entity, t, key, outcome) ==
  [cmd |-> cmd, entity |-> entity, time |-> t, write |-> TRUE,
   args |-> <<"--entity", entity, "--time", ToString(t), "--write", "--key">>
              \o key.val,
   env |-> [name |-> KeyVariable, value |-> undefined], outcome |-> outcome]

\* one call of adapter.exec(cliLocation, args, env), as the flush records
\* it: the heartbeat (file, timestamp, is_write), the argument list built
\* from it, the one variable of env (undefined when env is) and how the
\* process ends
Invocation(cmd, entity, t, key, outcome) ==
  [cmd |-> cmd, entity |-> entity, time |-> t, write |-> TRUE,
   args |-> <<"--entity", entity, "--time", ToString(t), "--write">>,
   env |-> [name |-> KeyVariable,
            value |-> IF Truthy(key) THEN key ELSE undefined],
   outcome |-> outcome]

\* sendSingleHeartbeat without the check of the API key
sendSingleHeartbeatNoKeyCheck(entity, key, loc, fsx, t, outcome) ==
  LET r == getCliLocation(loc, fsx)
  IN IF r.ret = "" \/ ~exists(fsx, r.ret)
     THEN [cliLocation |-> r.cliLocation, log |-> <<>>, threw |-> FALSE]
     ELSE [cliLocation |-> r.cliLocation,
           log |-> <<Invocation(r.ret, entity, t, key, outcome)>>,
           threw |-> FALSE]

\* sendSingleHeartbeat without the try/catch around adapter.exec
sendSingleHeartbeatNoCatch(entity, key, loc, fsx, t, outcome) ==
  IF ~Truthy(key)
  THEN [cliLocation |-> loc, log |-> <<>>, threw |-> FALSE]
  ELSE LET r == getCliLocation(loc, fsx)
       IN IF r.ret = "" \/ ~exists(fsx, r.ret)
          THEN [cliLocation |-> r.cliLocation, log |-> <<>>, threw |-> FALSE]
          ELSE [cliLocation |-> r.cliLocation,
                log |-> <<Invocation(r.ret, entity, t, key, outcome)>>,
                threw |-> outcome = "reject"]

\* WakaTimeTracker.sendSingleHeartbeat (tracker.ts): the locator's field
\* afterwards, the invocations made and whether the call threw.  The
\* existence checks of getCliLocation and of line 121 are outside the
\* try/catch, which encloses adapter.exec only.
sendSingleHeartbeat(entity, key, loc, fsx, t, outcome) ==
  IF ~Truthy(key)
  THEN [cliLocation |-> loc, log |-> <<>>, threw |-> FALSE]
  ELSE IF outcome = "existsReject"
  THEN [cliLocation |-> loc, log |-> <<>>, threw |-> TRUE]
  ELSE LET r == getCliLocation(loc, fsx)
       IN IF r.ret = "" \/ ~exists(fsx, r.ret)
          THEN [cliLocation |-> r.cliLocation, log |-> <<>>, threw |-> FALSE]
          ELSE [cliLocation |-> r.cliLocation,
                log |-> <<Invocation(r.ret, entity, t, key, outcome)>>,
                threw |-> FALSE]

\* WakaTimeTracker.sendSingleHeartbeat (plugin): the located path is not
\* checked again; the plugin's adapter turns a failed exec into a result, and
\* the exec of a path that is no longer on disk is such a failure
sendSingleHeartbeatB(entity, key, loc, fsx, t, outcome) ==
  IF ~Truthy(key)
  THEN [cliLocation |-> loc, log |-> <<>>, threw |-> FALSE]
  ELSE LET r == getCliLocationB(loc, fsx)
       IN IF r.ret = ""
          THEN [cliLocation |-> r.cliLocation, log |-> <<>>, threw |-> FALSE]
          ELSE [cliLocation |-> r.cliLocation,
                log |-> <<Invocation(r.ret, entity, t, key,
                                     IF exists(fsx, r.ret) THEN outcome
                                     ELSE "nonzero")>>,
                threw |-> FALSE]

SendSingleOf(b, entity, key, loc, fsx, t, outcome) ==
  IF b = "modular" THEN sendSingleHeartbeat(entity, key, loc, fsx, t, outcome)
  ELSE sendSingleHeartbeatB(entity, key, loc, fsx, t, outcome)

\* the for loop of WakaTimeTracker.sendHeartbeats from entry i on; acc holds
\* what the entries before i did.  A throw ends the loop.
RECURSIVE sendHeartbeatsFrom(_, _, _, _, _, _, _, _)
sendHeartbeatsFrom(i, acc, b, ents, key, fsx, t, outcomes) ==
  IF i > Len(ents) \/ acc.threw THEN acc
  ELSE LET r == SendSingleOf(b, ents[i].entity, key, acc.cliLocation, fsx, t,
                             outcomes[i])
       IN sendHeartbeatsFrom(i + 1,
            [cliLocation |-> r.cliLocation,
             log |-> acc.log \o r.log,
             attempted |-> acc.attempted \cup {ents[i].entity},
             threw |-> r.threw],
            b, ents, key, fsx, t, outcomes)

\* WakaTimeTracker.sendHeartbeats
sendHeartbeats(b, ents, key, loc, fsx, t, outcomes) ==
  sendHeartbeatsFrom(1,
    [cliLocation |-> loc, log |-> <<>>, attempted |-> {}, threw |-> FALSE],
    b, ents, key, fsx, t, outcomes)

\* what a handler that starts no flush reports
NoFlush(loc) ==
  [cliLocation |-> loc, log |-> <<>>, attempted |-> {}, threw |-> FALSE]

\* isValidFilePath without the existence check
isValidFilePathAny(fsx, filePath) == TRUE

\* WakaTimeTracker.isValidFilePath
isValidFilePath(fsx, filePath) == exists(fsx, filePath)

\* what a handler reports next to the fields it leaves behind
Outcome(ents, lastAt, r, flushed, threw) ==
  [fileEntities |-> ents, lastHeartbeatAt |-> lastAt,
   cliLocation |-> r.cliLocation, flushed |-> flushed,
   attempted |-> r.attempted, log |-> r.log, threw |-> threw]

\* trackedEntities counting every operation, reads too
trackedEntitiesAnyOperation(ents, filePath, operation, lineChanges, readLines) ==
  LET fullPath == fullPathOf(filePath)
      changes == IF lineChanges # 0 THEN lineChanges
                 ELSE calculateLineChanges(readLines)
  IN setChanges(ents, fullPath, getChanges(ents, fullPath) + changes)

\* the pending entries of trackFileEdit (tracker.ts) after its set
trackedEntities(ents, filePath, operation, lineChanges, readLines) ==
  LET fullPath == fullPathOf(filePath)
      changes == IF lineChanges # 0 THEN lineChanges
                 ELSE calculateLineChanges(readLines)
  IN IF operation = "write" \/ operation = "edit"
     THEN setChanges(ents, fullPath, getChanges(ents, fullPath) + changes)
     ELSE ents

\* WakaTimeTracker.trackFileEdit (tracker.ts).  An error thrown inside the
\* try block is logged by the catch and the entries stay as they are.
trackFileEdit(ents, lastAt, key, loc, fsx, t, filePath, operation, lineChanges, readLines, outcomes) ==
  IF ~isValidFilePath(fsx, filePath)
  THEN Outcome(ents, lastAt, NoFlush(loc), FALSE, FALSE)
  ELSE LET ents1 == trackedEntities(ents, filePath, operation, lineChanges, readLines)
           r == sendHeartbeats("modular", ents1, key, loc, fsx, t, outcomes)
           c == clearEntities(t)
       IN IF ~shouldSendHeartbeat(t, lastAt)
          THEN Outcome(ents1, lastAt, NoFlush(loc), FALSE, FALSE)
          ELSE IF r.threw
               THEN Outcome(ents1, lastAt, r, TRUE, FALSE)
               ELSE Outcome(c.fileEntities, c.lastHeartbeatAt, r, TRUE, FALSE)

\* the pending entries of trackFileEdit (plugin) after its set
trackedEntitiesB(ents, filePath, operation, lineChanges) ==
  LET fullPath == fullPathOf(filePath)
      changes == IF lineChanges # 0 THEN lineChanges ELSE FallbackChangesB
  IN IF operation = "write" \/ operation = "edit"
     THEN setChanges(ents, fullPath, getChanges(ents, fullPath) + changes)
     ELSE ents

\* WakaTimeTracker.trackFileEdit (plugin): no try/catch, an error leaves
\* the handler before the entries are cleared
trackFileEditB(ents, lastAt, key, loc, fsx, t, filePath, operation, lineChanges, readLines, outcomes) ==
  IF ~exists(fsx, fullPathOf(filePath))
  THEN Outcome(ents, lastAt, NoFlush(loc), FALSE, FALSE)
  ELSE LET ents1 == trackedEntitiesB(ents, filePath, operation, lineChanges)
           r == sendHeartbeats("bundled", ents1, key, loc, fsx, t, outcomes)
       IN IF ~(t - lastAt >= HeartbeatInterval)
          THEN Outcome(ents1, lastAt, NoFlush(loc), FALSE, FALSE)
          ELSE IF r.threw
               THEN Outcome(ents1, lastAt, r, TRUE, TRUE)
               ELSE Outcome(<<>>, t, r, TRUE, FALSE)

TrackFileEditOf(b, ents, lastAt, key, loc, fsx, t, filePath, operation, lineChanges, readLines, outcomes) ==
  IF b = "modular"
  THEN trackFileEdit(ents, lastAt, key, loc, fsx, t, filePath, operation,
                     lineChanges, readLines, outcomes)
  ELSE trackFileEditB(ents, lastAt, key, loc, fsx, t, filePath, operation,
                      lineChanges, readLines, outcomes)

\* sendHeartbeat flushing only when the interval has passed
sendHeartbeatGated(ents, lastAt, key, loc, fsx, t, outcomes) ==
  LET r == sendHeartbeats("modular", ents, key, loc, fsx, t, outcomes)
      c == clearEntities(t)
  IN IF ~shouldSendHeartbeat(t, lastAt)
     THEN Outcome(ents, lastAt, NoFlush(loc), FALSE, FALSE)
     ELSE Outcome(c.fileEntities, c.lastHeartbeatAt, r, TRUE, FALSE)

\* WakaTimeTracker.sendHeartbeat (tracker.ts)
sendHeartbeat(ents, lastAt, key, loc, fsx, t, outcomes) ==
  LET r == sendHeartbeats("modular", ents, key, loc, fsx, t, outcomes)
      c == clearEntities(t)
  IN IF r.threw
     THEN Outcome(ents, lastAt, r, TRUE, TRUE)
     ELSE Outcome(c.fileEntities, c.lastHeartbeatAt, r, TRUE, FALSE)

\* WakaTimeTracker.sendHeartbeat (plugin)
sendHeartbeatB(ents, lastAt, key, loc, fsx, t, outcomes) ==
  LET r == sendHeartbeats("bundled", ents, key, loc, fsx, t, outcomes)
  IN IF r.threw
     THEN Outcome(ents, lastAt, r, TRUE, TRUE)
     ELSE Outcome(<<>>, t, r, TRUE, FALSE)

SendHeartbeatOf(b, ents, lastAt, key, loc, fsx, t, outcomes) ==
  IF b = "modular" THEN sendHeartbeat(ents, lastAt, key, loc, fsx, t, outcomes)
  ELSE sendHeartbeatB(ents, lastAt, key, loc, fsx, t, outcomes)

\* the tool names the host's pre-execution hook reports
ToolNames == {"read", "read_file", "write", "write_file", "edit", "replace", "bash"}
\* a field of the args object: not there, or a value that is not a string
\* (a number, say, which is truthy), or a file path
Absent == "<absent>"
NonString == "<42>"
Present(v) == v # Absent
IsString(v) == v # Absent /\ v # NonString
\* the args of a tool call: undefined, or an object with its three fields
NoArgs == [defined |-> FALSE, filePath |-> Absent, file_path |-> Absent, path |-> Absent]
Args(a, b, c) == [defined |-> TRUE, filePath |-> a, file_path |-> b, path |-> c]
ToolArgs ==
  {NoArgs, Args(Absent, Absent, Absent), Args("/w/b.ts", Absent, Absent),
   Args("a.ts", Absent, Absent), Args(Absent, "/w/b.ts", Absent),
   Args(Absent, Absent, "/w/b.ts"), Args(NonString, Absent, Absent),
   Args(NonString, "/w/b.ts", Absent)}

\* what trackToolUsage does with a tool call: throws, returns without a
\* call, or calls trackFileEdit(filePath, operation)
Throws == [kind |-> "throw", filePath |-> Absent, operation |-> "none"]
Ignores == [kind |-> "ignore", filePath |-> Absent, operation |-> "none"]
Tracks(filePath, operation) ==
  [kind |-> "track", filePath |-> filePath, operation |-> operation]

\* WakaTimeTracker.trackToolUsage (tracker.ts): args.filePath is read, for
\* the tools read, write and edit only, and reading it off undefined throws
trackToolUsage(toolName, args) ==
  IF toolName \in {"read", "write", "edit"}
  THEN IF ~args.defined THEN Throws
       ELSE IF Present(args.filePath) THEN Tracks(args.filePath, toolName)
       ELSE Ignores
  ELSE Ignores

\* WakaTimeTracker.trackToolUsage (plugin): the operation handed on for a
\* write-like tool is the tool's own name
trackToolUsageB(toolName, args) ==
  LET filePath == IF Present(args.filePath) THEN args.filePath
                  ELSE IF Present(args.file_path) THEN args.file_path
                  ELSE args.path
  IN IF ~args.defined THEN Ignores
     ELSE IF ~Present(filePath) \/ ~IsString(filePath) THEN Ignores
     ELSE IF toolName \in {"read", "read_file"} THEN Tracks(filePath, "read")
     ELSE IF toolName \in {"write", "write_file", "edit", "replace"}
          THEN Tracks(filePath, toolName)
          ELSE Ignores

TrackToolUsageOf(b, toolName, args) ==
  IF b = "modular" THEN trackToolUsage(toolName, args)
  ELSE trackToolUsageB(toolName, args)

\* what getStatus answers: the transitional message, or the report with its
\* fields (the plugin's report has neither the pending count nor the time of
\* the last heartbeat; they are 0 there)
Initializing ==
  [kind |-> "initializing", apiKey |-> FALSE, location |-> "",
   installed |-> FALSE, pending |-> 0, lastHeartbeat |-> 0]
Report(key, location, installed, pending, lastAt) ==
  [kind |-> "report", apiKey |-> Truthy(key), location |-> location,
   installed |-> installed, pending |-> pending, lastHeartbeat |-> lastAt]

\* getStatus without the test of this.dependencies: the call on undefined
\* throws
getStatusNoGuard(deps, key, loc, fsx, ents, lastAt) ==
  IF ~deps THEN [ret |-> Initializing, cliLocation |-> loc, threw |-> TRUE]
  ELSE LET g == getCliLocation(loc, fsx)
           i == isCliInstalled(g.cliLocation, fsx)
       IN [ret |-> Report(key, IF g.ret = "" THEN "Not found" ELSE g.ret, i.ret,
                          Len(ents), lastAt),
           cliLocation |-> i.cliLocation, threw |-> FALSE]

\* WakaTimeTracker.getStatus (tracker.ts); deps: this.dependencies is set
getStatus(deps, key, loc, fsx, ents, lastAt) ==
  IF ~deps THEN [ret |-> Initializing, cliLocation |-> loc, threw |-> FALSE]
  ELSE LET g == getCliLocation(loc, fsx)
           i == isCliInstalled(g.cliLocation, fsx)
       IN [ret |-> Report(key, IF g.ret = "" THEN "Not found" ELSE g.ret, i.ret,
                          Len(ents), lastAt),
           cliLocation |-> i.cliLocation, threw |-> FALSE]

\* WakaTimeTracker.getStatus (plugin): the locator is made by the constructor
getStatusB(deps, key, loc, fsx, ents, lastAt) ==
  LET i == isCliInstalledB(loc, fsx)
      g == getCliLocationB(i.cliLocation, fsx)
  IN [ret |-> Report(key, g.ret, i.ret, 0, 0),
      cliLocation |-> g.cliLocation, threw |-> FALSE]

GetStatusOf(b, deps, key, loc, fsx, ents, lastAt) ==
  IF b = "modular" THEN getStatus(deps, key, loc, fsx, ents, lastAt)
  ELSE getStatusB(deps, key, loc, fsx, ents, lastAt)

\* WakaTimeTracker.initialize with loadConfig (tracker.ts) up to its call
\* of checkAndInstallCli: the cache, the key, and whether it threw
initialize(cfg) ==
  LET l == loadConfigs(cfg)
  IN IF l.threw
     THEN [configCache |-> l.cache, apiKey |-> undefined, threw |-> TRUE]
     ELSE [configCache |-> l.cache,
           apiKey |-> getSetting(l.cache, <<"settings">>, <<"api_key">>),
           threw |-> FALSE]

\* WakaTimeTracker.initialize (plugin) up to its call of checkAndInstallCli
initializeB(cfg) ==
  LET l == loadConfigsB(cfg)
  IN IF l.threw
     THEN [configCache |-> l.cache, apiKey |-> undefined, threw |-> TRUE]
     ELSE [configCache |-> l.cache,
           apiKey |-> getSettingB(l.cache, <<"settings">>, <<"api_key">>),
           threw |-> FALSE]

InitializeOf(b, cfg) ==
  IF b = "modular" THEN initialize(cfg) ELSE initializeB(cfg)

\* Dependencies.checkAndInstallCli: it logs what isCliInstalled answers; the
\* locator's field afterwards
checkAndInstallCli(b, loc, fsx) == IsCliInstalledOf(b, loc, fsx).cliLocation

(***************************************************************************)
(* The state machine.  now and fs are the environment: the wall clock in   *)
(* seconds and the paths that exist on disk.  last is the record of the    *)
(* latest call the host made: its arguments, whether the path it named was *)
(* on disk, and what it did; last.fresh                                    *)
(* holds from the return of that call until the environment moves, so that *)
(* now and fs are then still the clock and the disk the call ran with.     *)
(* initPhase is the position of the one initialize() call: not made yet,   *)
(* suspended in checkAndInstallCli (the configuration is loaded, the       *)
(* locator exists and the key is set), or returned.                        *)
(***************************************************************************)
InitPhases == {"constructed", "checking", "done"}
\* initialize() has returned
initialized == initPhase = "done"
\* this.dependencies is set: by initialize in tracker.ts, by the constructor
\* in the plugin
dependencies == build = "bundled" \/ initPhase # "constructed"
AllPaths == WorkFiles \cup CliPaths

NoCall ==
  [op |-> "none", fresh |-> FALSE, toolName |-> "none", args |-> NoArgs,
   filePath |-> "none", operation |-> "none",
   lineChanges |-> 0, readLines |-> 0, elapsed |-> 0, preLocation |-> NoLocation, existed |-> FALSE,
   flushed |-> FALSE, attempted |-> {},
   execLog |-> <<>>, threw |-> FALSE, retLocation |-> "", retInstalled |-> FALSE,
   section |-> <<>>, key |-> <<>>, retSetting |-> undefined,
   retStatus |-> Initializing]

\* the record of a call, before what the call did is filled in
Call(op) ==
  [NoCall EXCEPT !.op = op, !.fresh = TRUE, !.elapsed = now - lastHeartbeatAt,
                 !.preLocation = cliLocation]

\* the record of the latest call once the environment has moved
Stale == [last EXCEPT !.fresh = FALSE]

WithinBounds(ents) ==
  \A i \in 1..Len(ents) : ents[i].changes \in (0 - MaxChanges)..MaxChanges

\* the paths the environment creates and removes while the dispatcher is
\* followed: one tracked file and the first candidate of the CLI; the other
\* tracked file stays on disk and the brew candidates stay absent
TrackerPaths == {"/w/a.ts", LocalCli}

\* the largest number of callbacks the host has under way at once
MaxCallbacks == 2
Callbacks == 1..MaxCallbacks

\* the position of a callback that is not under way.  A callback under way
\* is suspended in an await on the adapter: pc is "exists" (trackFileEdit
\* waits for the existence check of its path), "readFile" (it waits in
\* calculateLineChanges) or "sending" (the for loop of sendHeartbeats waits
\* inside sendSingleHeartbeat); cursor is the number of pending entries the
\* iterator of that loop has passed.
Returned ==
  [op |-> "none", pc |-> "returned", filePath |-> "none", operation |-> "none",
   lineChanges |-> 0, cursor |-> 0]

\* what is remembered of the pending entries since they were last cleared:
\* the calls of sendSingleHeartbeat made for them (by which callback, for
\* which entry, whether the CLI was invoked), the entities that were set
\* after the latest such call for them, and the entities the latest clear
\* removed in that condition
NoLedger == [attempts |-> {}, uncovered |-> {}, dropped |-> {}]

\* the state after construction, except for the disk
Constructed ==
  /\ build \in {"modular", "bundled"}
  /\ now = StartNow
  /\ initPhase = "constructed"
  /\ configCache = undefined
  /\ apiKey = undefined
  /\ cliLocation = NoLocation
  /\ fileEntities = <<>>
  /\ lastHeartbeatAt = InitialLastHeartbeatAt
  /\ last = NoCall
  /\ callbacks = [c \in Callbacks |-> Returned]
  /\ ledger = NoLedger

Init ==
  /\ Constructed
  /\ fs \in {{"/w/b.ts"} \cup S : S \in SUBSET TrackerPaths}


\* the plugin entry calls tracker.initialize() once, before it hands the
\* hooks to the host; the call runs up to checkAndInstallCli, where it waits
\* for the adapter
Initialize(cfg) ==
  /\ initPhase = "constructed"
  /\ LET r == InitializeOf(build, cfg)
     IN /\ configCache' = r.configCache
        /\ apiKey' = r.apiKey
        /\ initPhase' = IF r.threw THEN "done" ELSE "checking"
        /\ last' = IF r.threw THEN [Call("initialize") EXCEPT !.threw = TRUE]
                   ELSE Stale
  /\ UNCHANGED <<callbacks, ledger, build, now, fs, cliLocation, fileEntities, lastHeartbeatAt>>

\* checkAndInstallCli resumes and initialize() returns
CheckAndInstallCli ==
  /\ initPhase = "checking"
  /\ cliLocation' = checkAndInstallCli(build, cliLocation, fs)
  /\ initPhase' = "done"
  /\ last' = Call("initialize")
  /\ UNCHANGED <<callbacks, ledger, build, now, fs, configCache, apiKey, fileEntities,
                 lastHeartbeatAt>>

\* what a handler that may flush leaves behind
Handled(call, r) ==
  /\ fileEntities' = r.fileEntities
  /\ lastHeartbeatAt' = r.lastHeartbeatAt
  /\ cliLocation' = r.cliLocation
  /\ last' = [call EXCEPT !.flushed = r.flushed, !.attempted = r.attempted,
                          !.execLog = r.log, !.threw = r.threw]
  /\ UNCHANGED <<callbacks, ledger, build, now, fs, initPhase, configCache, apiKey>>

\* a call of trackFileEdit, by the host or by trackToolUsage; call is the
\* record of the host's call
Tracked(call, filePath, operation, lineChanges, outs) ==
  /\ \E readLines \in IF build = "modular" /\ operation \in {"write", "edit"} /\ lineChanges = 0
                      THEN 0..MaxLines ELSE {1} :
       LET flushes == IF build = "modular"
                      THEN isValidFilePath(fs, filePath)
                             /\ shouldSendHeartbeat(now, lastHeartbeatAt)
                      ELSE exists(fs, fullPathOf(filePath))
                             /\ now - lastHeartbeatAt >= HeartbeatInterval
           counted == operation \in {"write", "edit"} /\ exists(fs, filePath)
           ents1 == IF build = "modular"
                    THEN trackedEntities(fileEntities, filePath, operation,
                                         lineChanges, readLines)
                    ELSE trackedEntitiesB(fileEntities, filePath, operation,
                                          lineChanges)
       IN /\ WithinBounds(ents1)
          /\ \E outcomes \in [1..(IF flushes THEN Len(ents1) ELSE 0) -> outs] :
               LET r == TrackFileEditOf(build, fileEntities, lastHeartbeatAt, apiKey,
                                        cliLocation, fs, now, filePath, operation,
                                        lineChanges, readLines, outcomes)
               IN Handled([call EXCEPT
                             !.filePath = filePath, !.operation = operation,
                             !.lineChanges = IF counted THEN lineChanges ELSE 0,
                             !.readLines = IF counted THEN readLines ELSE 0,
                             !.existed = exists(fs, filePath)],
                          r)

\* the host reports a file operation: event "file.edited"
TrackFileEdit(filePath, operation, lineChanges) ==
  /\ initialized
  /\ Tracked(Call("trackFileEdit"), filePath, operation, lineChanges,
             ExecOutcomes)

\* the host's hook "tool.execute.before" reports a tool call
TrackToolUsage(toolName, args) ==
  /\ initialized
  /\ LET d == TrackToolUsageOf(build, toolName, args)
         call == [Call("trackToolUsage") EXCEPT !.toolName = toolName,
                                                !.args = args]
     IN IF d.kind = "track"
        THEN Tracked(call, d.filePath, d.operation, 0, ExecOutcomes)
        ELSE /\ last' = [call EXCEPT !.threw = (d.kind = "throw")]
             /\ UNCHANGED <<callbacks, ledger, build, now, fs, initPhase, configCache, apiKey, cliLocation,
                            fileEntities, lastHeartbeatAt>>

\* the host signals "session.idle"
SendHeartbeat ==
  /\ initialized
  /\ \E outcomes \in [1..Len(fileEntities) -> ExecOutcomes] :
       Handled(Call("sendHeartbeat"),
               SendHeartbeatOf(build, fileEntities, lastHeartbeatAt, apiKey,
                               cliLocation, fs, now, outcomes))

\* the calls of the host on the tracker of tracker.ts when the adapter it
\* was constructed with may reject an existence check (the plugin's own
\* adapter answers false instead): trackFileEdit whose isValidFilePath call
\* rejects, outside the try block
TrackFileEditExistsRejects(filePath, operation) ==
  /\ initialized
  /\ build = "modular"
  /\ last' = [Call("trackFileEdit") EXCEPT
                !.filePath = filePath, !.operation = operation,
                !.existed = exists(fs, filePath), !.threw = TRUE]
  /\ UNCHANGED <<callbacks, ledger, build, now, fs, initPhase, configCache, apiKey, cliLocation,
                 fileEntities, lastHeartbeatAt>>

\* trackFileEdit whose flush may meet a rejected existence check
TrackFileEditFaulty(filePath, operation, lineChanges) ==
  /\ initialized
  /\ Tracked(Call("trackFileEdit"), filePath, operation, lineChanges,
             IF build = "modular" THEN AdapterOutcomes ELSE ExecOutcomes)

\* sendHeartbeat whose flush may meet a rejected existence check
SendHeartbeatFaulty ==
  /\ initialized
  /\ \E outcomes \in [1..Len(fileEntities) ->
                        IF build = "modular" THEN AdapterOutcomes ELSE ExecOutcomes] :
       Handled(Call("sendHeartbeat"),
               SendHeartbeatOf(build, fileEntities, lastHeartbeatAt, apiKey,
                               cliLocation, fs, now, outcomes))

\* a caller asks the locator for the CLI
GetCliLocation ==
  /\ initialized
  /\ LET r == GetCliLocationOf(build, cliLocation, fs)
     IN /\ cliLocation' = r.cliLocation
        /\ last' = [Call("getCliLocation") EXCEPT !.retLocation = r.ret]
  /\ UNCHANGED <<callbacks, ledger, build, now, fs, initPhase, configCache, apiKey, fileEntities,
                 lastHeartbeatAt>>

\* a caller asks whether the CLI is installed
IsCliInstalled ==
  /\ initialized
  /\ LET r == IsCliInstalledOf(build, cliLocation, fs)
     IN /\ cliLocation' = r.cliLocation
        /\ last' = [Call("isCliInstalled") EXCEPT !.retInstalled = r.ret]
  /\ UNCHANGED <<callbacks, ledger, build, now, fs, initPhase, configCache, apiKey, fileEntities,
                 lastHeartbeatAt>>

\* Options.loadConfigs on a new Options object
LoadConfigs(cfg) ==
  /\ initPhase = "constructed"
  /\ configCache = undefined
  /\ LET l == LoadConfigsOf(build, cfg)
     IN /\ configCache' = l.cache
        /\ last' = [Call("loadConfigs") EXCEPT !.threw = l.threw]
  /\ UNCHANGED <<callbacks, ledger, build, now, fs, initPhase, apiKey, cliLocation, fileEntities,
                 lastHeartbeatAt>>

\* a caller reads a setting
GetSetting(section, key) ==
  /\ last' = [Call("getSetting") EXCEPT
                !.section = section, !.key = key,
                !.retSetting = GetSettingOf(build, configCache, section, key)]
  /\ UNCHANGED <<callbacks, ledger, build, now, fs, initPhase, configCache, apiKey, cliLocation,
                 fileEntities, lastHeartbeatAt>>

\* the status is asked for: of the tracker at any time, of the plugin
\* through its tool wakatime_status, which exists once initialize returned
GetStatus ==
  /\ build = "modular" \/ initialized
  /\ LET r == GetStatusOf(build, dependencies, apiKey, cliLocation, fs,
                          fileEntities, lastHeartbeatAt)
     IN /\ cliLocation' = r.cliLocation
        /\ last' = [Call("getStatus") EXCEPT !.retStatus = r.ret,
                                             !.threw = r.threw]
  /\ UNCHANGED <<callbacks, ledger, build, now, fs, initPhase, configCache, apiKey, fileEntities,
                 lastHeartbeatAt>>

\* time passes between two callbacks
Tick(d) ==
  /\ now + d <= MaxNow
  /\ now' = now + d
  /\ last' = Stale
  /\ UNCHANGED <<callbacks, ledger, build, fs, initPhase, configCache, apiKey, cliLocation, fileEntities,
                 lastHeartbeatAt>>

\* a file or a CLI binary appears on disk
FsCreate(p) ==
  /\ p \notin fs
  /\ fs' = fs \cup {p}
  /\ last' = Stale
  /\ UNCHANGED <<callbacks, ledger, build, now, initPhase, configCache, apiKey, cliLocation, fileEntities,
                 lastHeartbeatAt>>

\* a file or a CLI binary is removed from disk
FsRemove(p) ==
  /\ p \in fs
  /\ fs' = fs \ {p}
  /\ last' = Stale
  /\ UNCHANGED <<callbacks, ledger, build, now, initPhase, configCache, apiKey, cliLocation, fileEntities,
                 lastHeartbeatAt>>

\* the dispatcher under the host's callbacks
Next ==
  \/ \E cfg \in ConfigFiles : Initialize(cfg)
  \/ CheckAndInstallCli
  \/ \E p \in FilePaths, o \in Operations, h \in LineChangeHints : TrackFileEdit(p, o, h)
  \/ SendHeartbeat
  \/ \E d \in TickSteps : Tick(d)
  \/ \E p \in TrackerPaths : FsCreate(p)
  \/ \E p \in TrackerPaths : FsRemove(p)

Spec == Init /\ [][Next]_vars

\* the locator under its callers, with every candidate of the CLI coming and
\* going on disk
InitLocator ==
  /\ Constructed
  /\ fs \in {WorkFiles \cup S : S \in SUBSET CliPaths}

NextLocator ==
  \/ \E cfg \in ConfigFiles : Initialize(cfg)
  \/ CheckAndInstallCli
  \/ GetCliLocation
  \/ IsCliInstalled
  \/ \E p \in CliPaths : FsCreate(p)
  \/ \E p \in CliPaths : FsRemove(p)

SpecLocator == InitLocator /\ [][NextLocator]_vars

\* Options under its callers: the configuration is loaded once and settings
\* are read from the cache
InitOptions ==
  /\ Constructed
  /\ fs = WorkFiles

NextOptions ==
  \/ \E cfg \in OptionFiles : LoadConfigs(cfg)
  \/ \E section \in SectionNames, key \in KeyNames : GetSetting(section, key)

SpecOptions == InitOptions /\ [][NextOptions]_vars

\* the tracker under status queries, which may come while initialize() is
\* under way, with writes of /w/b.ts and the CLI coming and going
InitStatus ==
  /\ Constructed
  /\ fs \in {{"/w/b.ts"} \cup S : S \in SUBSET {LocalCli}}

NextStatus ==
  \/ \E cfg \in ConfigFiles : Initialize(cfg)
  \/ CheckAndInstallCli
  \/ GetStatus
  \/ \E h \in LineChangeHints : TrackFileEdit("/w/b.ts", "write", h)
  \/ \E d \in TickSteps : Tick(d)
  \/ FsCreate(LocalCli)
  \/ FsRemove(LocalCli)

SpecStatus == InitStatus /\ [][NextStatus]_vars

\* the dispatcher over an adapter whose calls may all fail, with every
\* tracked file and the CLI on disk
InitFaults ==
  /\ Constructed
  /\ fs = WorkFiles \cup {LocalCli}

NextFaults ==
  \/ \E cfg \in ConfigFiles : Initialize(cfg)
  \/ CheckAndInstallCli
  \/ \E p \in FilePaths, o \in Operations : TrackFileEditExistsRejects(p, o)
  \/ \E p \in FilePaths, o \in Operations : TrackFileEditFaulty(p, o, 0)
  \/ SendHeartbeatFaulty
  \/ \E d \in TickSteps : Tick(d)

SpecFaults == InitFaults /\ [][NextFaults]_vars

\* the change counts under a caller that passes signed hints, with every
\* tracked file and the CLI on disk
InitCounts ==
  /\ Constructed
  /\ fs = WorkFiles \cup {LocalCli}

NextCounts ==
  \/ \E cfg \in ConfigFiles : Initialize(cfg)
  \/ CheckAndInstallCli
  \/ \E p \in FilePaths, o \in Operations, h \in SignedHints : TrackFileEdit(p, o, h)
  \/ SendHeartbeat
  \/ \E d \in TickSteps : Tick(d)

SpecCounts == InitCounts /\ [][NextCounts]_vars

\* the dispatcher under the host's tool calls, with /w/b.ts and the CLI on
\* disk and /w/a.ts missing
InitTools ==
  /\ Constructed
  /\ fs = {"/w/b.ts", LocalCli}

NextTools ==
  \/ \E cfg \in ConfigFiles : Initialize(cfg)
  \/ CheckAndInstallCli
  \/ \E t \in ToolNames, a \in ToolArgs : TrackToolUsage(t, a)
  \/ SendHeartbeat
  \/ \E d \in TickSteps : Tick(d)

SpecTools == InitTools /\ [][NextTools]_vars

(***************************************************************************)
(* Overlapping callbacks.  The handlers are async functions and the        *)
(* tracker holds no lock: while one callback waits for the adapter, the    *)
(* host may call another, which runs up to its own next wait.  A step here *)
(* is the code of one callback between two waits on the adapter.  Code     *)
(* that awaits without calling the adapter (sendSingleHeartbeat returning  *)
(* for a missing key, the return of sendHeartbeats to its caller) is not   *)
(* split from what follows it.                                             *)
(***************************************************************************)
\* one call of sendSingleHeartbeat(entity, changes) by callback c
Attempt(c, e, invoked) ==
  [callback |-> c, entity |-> e.entity, changes |-> e.changes,
   invoked |-> invoked]

\* the other fields of the tracker stay as they are
TrackerFrame == UNCHANGED <<build, now, fs, initPhase, configCache, apiKey, last>>

\* callback c returns to the host without having touched the tracker
Return(c) ==
  /\ callbacks' = [callbacks EXCEPT ![c] = Returned]
  /\ UNCHANGED <<fileEntities, lastHeartbeatAt, cliLocation, ledger>>

\* the for loop of sendHeartbeats has ended for callback c, whose caller
\* goes on to clear the entries and returns.  fileEntities.clear() empties
\* the Map under the iterators of the other loops: an iterator that has not
\* ended goes on with the entries set after the clear.
Cleared(c, led) ==
  LET cl == clearEntities(now)
  IN /\ fileEntities' = cl.fileEntities
     /\ lastHeartbeatAt' = cl.lastHeartbeatAt
     /\ callbacks' = [d \in Callbacks |->
                        IF d = c THEN Returned
                        ELSE [callbacks[d] EXCEPT !.cursor = 0]]
     /\ ledger' = [attempts |-> {}, uncovered |-> {},
                   dropped |-> led.uncovered]
     /\ UNCHANGED cliLocation

\* the for loop of sendHeartbeats in callback c, position cb, over the
\* entries ents, up to its next wait: the iterator yields the entry after
\* the ones it has passed and sendSingleHeartbeat is called with it.  With
\* an API key the call waits for the adapter (the locator's existence
\* checks, then the CLI); without one it returns and the loop goes on.
Loop(c, cb, ents, led) ==
  LET rest == {ents[i] : i \in (cb.cursor + 1)..Len(ents)}
  IN IF ~Truthy(apiKey)
     THEN Cleared(c, [led EXCEPT
                        !.attempts = @ \cup {Attempt(c, e, FALSE) : e \in rest},
                        !.uncovered = @ \ {e.entity : e \in rest}])
     ELSE IF cb.cursor < Len(ents)
     THEN \E outcome \in ExecOutcomes :
            LET e == ents[cb.cursor + 1]
                r == SendSingleOf(build, e.entity, apiKey, cliLocation, fs, now,
                                  outcome)
            IN /\ fileEntities' = ents
               /\ cliLocation' = r.cliLocation
               /\ callbacks' = [callbacks EXCEPT
                                  ![c] = [cb EXCEPT !.pc = "sending",
                                                    !.cursor = @ + 1]]
               /\ ledger' = [led EXCEPT
                               !.attempts = @ \cup {Attempt(c, e, Len(r.log) > 0)},
                               !.uncovered = @ \ {e.entity}]
               /\ UNCHANGED lastHeartbeatAt
     ELSE Cleared(c, led)

\* trackFileEdit in callback c from its set to its next wait or its return;
\* readLines is the line count calculateLineChanges came back with
Recorded(c, readLines) ==
  LET cb == callbacks[c]
      ents1 == IF build = "modular"
               THEN trackedEntities(fileEntities, cb.filePath, cb.operation,
                                    cb.lineChanges, readLines)
               ELSE trackedEntitiesB(fileEntities, cb.filePath, cb.operation,
                                     cb.lineChanges)
      led == IF cb.operation \in {"write", "edit"}
             THEN [ledger EXCEPT !.uncovered = @ \cup {fullPathOf(cb.filePath)}]
             ELSE ledger
  IN /\ WithinBounds(ents1)
     /\ IF shouldSendHeartbeat(now, lastHeartbeatAt)
        THEN Loop(c, cb, ents1, led)
        ELSE /\ fileEntities' = ents1
             /\ ledger' = led
             /\ callbacks' = [callbacks EXCEPT ![c] = Returned]
             /\ UNCHANGED <<cliLocation, lastHeartbeatAt>>

\* the callbacks under way fill the positions from the first on
Free(c) ==
  /\ callbacks[c] = Returned
  /\ \A d \in Callbacks : d < c => callbacks[d] # Returned

\* the host calls trackFileEdit, which waits for the existence check; the
\* line count is kept for the operations that use it
CallTrackFileEdit(c, filePath, operation, lineChanges) ==
  /\ initialized
  /\ Free(c)
  /\ callbacks' = [callbacks EXCEPT
                     ![c] = [op |-> "trackFileEdit", pc |-> "exists",
                             filePath |-> filePath, operation |-> operation,
                             lineChanges |-> IF operation = "read" THEN 0
                                             ELSE lineChanges,
                             cursor |-> 0]]
  /\ UNCHANGED <<fileEntities, lastHeartbeatAt, cliLocation, ledger>>
  /\ TrackerFrame

\* the existence check of trackFileEdit comes back
ExistsReturned(c) ==
  /\ callbacks[c].pc = "exists"
  /\ LET cb == callbacks[c]
         valid == IF build = "modular" THEN isValidFilePath(fs, cb.filePath)
                  ELSE exists(fs, fullPathOf(cb.filePath))
     IN IF ~valid THEN Return(c)
        ELSE IF build = "modular" /\ cb.operation \in {"write", "edit"}
                  /\ cb.lineChanges = 0
        THEN /\ callbacks' = [callbacks EXCEPT ![c] = [cb EXCEPT !.pc = "readFile"]]
             /\ UNCHANGED <<fileEntities, lastHeartbeatAt, cliLocation, ledger>>
        ELSE Recorded(c, 1)
  /\ TrackerFrame

\* the read of calculateLineChanges comes back
ReadFileReturned(c, readLines) ==
  /\ callbacks[c].pc = "readFile"
  /\ Recorded(c, readLines)
  /\ TrackerFrame

\* the host calls sendHeartbeat, which enters the loop at once
CallSendHeartbeat(c) ==
  /\ initialized
  /\ Free(c)
  /\ Loop(c, [Returned EXCEPT !.op = "sendHeartbeat"], fileEntities, ledger)
  /\ TrackerFrame

\* the wait inside sendSingleHeartbeat ends and the loop goes on
SendReturned(c) ==
  /\ callbacks[c].pc = "sending"
  /\ Loop(c, callbacks[c], fileEntities, ledger)
  /\ TrackerFrame

\* the dispatcher under a host that does not wait for one callback to
\* return before it calls the next, with every tracked file on disk
InitOverlap ==
  /\ Constructed
  /\ fs \in {WorkFiles \cup S : S \in SUBSET {LocalCli}}

\* the calls of the host that are followed here: reads and edits, of both
\* tracked files, with and without a line count
NextOverlap ==
  \/ \E cfg \in {CfgAbsent, CfgFile(TextKey)} : Initialize(cfg)
  \/ CheckAndInstallCli
  \/ \E c \in Callbacks, p \in FilePaths, o \in {"read", "edit"}, h \in LineChangeHints :
       CallTrackFileEdit(c, p, o, h)
  \/ \E c \in Callbacks : ExistsReturned(c)
  \/ \E c \in Callbacks, n \in 0..MaxLines : ReadFileReturned(c, n)
  \/ \E c \in Callbacks : CallSendHeartbeat(c)
  \/ \E c \in Callbacks : SendReturned(c)
  \/ Tick(HeartbeatInterval)

SpecOverlap == InitOverlap /\ [][NextOverlap]_vars

(***************************************************************************)
(* The claims.                                                             *)
(***************************************************************************)
\* the state right after a trackFileEdit call returned
TrackReturned(l) == l.fresh /\ l.op = "trackFileEdit"
IsWrite(l) == l.operation \in {"write", "edit"}

\* C1, as stated: trackFileEdit starts a flush exactly when at least 60
\* seconds have passed since the last flush and the event is a write or an
\* edit on an existing path; a read never starts one.
C1_AsStated ==
  TrackReturned(last) =>
    (last.flushed <=>
       (last.elapsed >= HeartbeatInterval /\ last.existed /\ IsWrite(last)))

\* C1, amended: trackFileEdit starts a flush exactly when at least 60
\* seconds have passed since the last flush and the path exists, whatever the
\* operation (a read starts one too); a write or edit on an existing path
\* less than 60 seconds after the last flush starts none and its entry is
\* pending afterwards.
C1_FlushTrigger ==
  TrackReturned(last) =>
    /\ last.flushed <=> (last.elapsed >= HeartbeatInterval /\ last.existed)
    /\ (IsWrite(last) /\ last.existed /\ last.elapsed < HeartbeatInterval)
         => fullPathOf(last.filePath) \in Entities(fileEntities)

\* a read of an existing path exactly 60 seconds after the last flush has
\* started a flush
C1_Witness ==
  /\ TrackReturned(last)
  /\ last.operation = "read"
  /\ last.existed
  /\ last.elapsed = HeartbeatInterval
  /\ last.flushed

\* C2, as stated: a read of an existing path leaves the pending entries and
\* the last-flush timestamp as they were and invokes nothing.
C2_AsStated ==
  [][(TrackReturned(last') /\ last'.operation = "read" /\ last'.existed)
       => /\ fileEntities' = fileEntities
          /\ lastHeartbeatAt' = lastHeartbeatAt
          /\ last'.execLog = <<>>]_vars

\* C2, amended: a read of an existing path adds no pending entry and raises
\* no count; less than 60 seconds after the last flush it changes neither
\* the pending entries nor the timestamp and invokes nothing; from 60 seconds
\* on it runs the flush: only entries pending before are dispatched, the
\* pending entries are cleared and the timestamp is set to now.
C2_ReadFrame ==
  [][(TrackReturned(last') /\ last'.operation = "read" /\ last'.existed)
       => IF last'.elapsed < HeartbeatInterval
          THEN /\ fileEntities' = fileEntities
               /\ lastHeartbeatAt' = lastHeartbeatAt
               /\ ~last'.flushed
               /\ last'.execLog = <<>>
          ELSE /\ fileEntities' = <<>>
               /\ lastHeartbeatAt' = now'
               /\ last'.attempted = Entities(fileEntities)
               /\ \A i \in 1..Len(last'.execLog) :
                    last'.execLog[i].entity \in Entities(fileEntities)]_vars

\* a read of an existing path inside the interval has left two pending
\* entries in place
C2_Witness ==
  /\ TrackReturned(last)
  /\ last.operation = "read"
  /\ last.existed
  /\ last.elapsed > 0
  /\ last.elapsed < HeartbeatInterval
  /\ Len(fileEntities) = 2

\* C3: trackFileEdit on a path that does not exist changes neither the
\* pending entries nor the last-flush timestamp and starts no dispatch,
\* whatever the operation, the hint and the time since the last flush.
C3_MissingPathFrame ==
  [][(TrackReturned(last') /\ ~last'.existed)
       => /\ fileEntities' = fileEntities
          /\ lastHeartbeatAt' = lastHeartbeatAt
          /\ ~last'.flushed
          /\ last'.attempted = {}
          /\ last'.execLog = <<>>]_vars

\* a write to a missing path 60 seconds or more after the last flush, with
\* another entity pending
C3_Witness ==
  /\ TrackReturned(last)
  /\ IsWrite(last)
  /\ ~last.existed
  /\ last.elapsed >= HeartbeatInterval
  /\ fileEntities # <<>>
  /\ fullPathOf(last.filePath) \notin Entities(fileEntities)

\* the state right after a call that ran the flush procedure returned
FlushReturned(l) == l.fresh /\ l.flushed
\* the entities a flush finds pending, given the entries before the call:
\* those, and the file of the write or edit the call itself tracked
FlushSet(l, ents) ==
  IF l.op = "trackFileEdit" /\ IsWrite(l)
  THEN Entities(ents) \cup {fullPathOf(l.filePath)}
  ELSE Entities(ents)
\* the files a flush handed to the CLI
Invoked(l) == {l.execLog[i].entity : i \in 1..Len(l.execLog)}
\* an API key is configured and the CLI is on disk where the locator has it
KeyAndCli == Truthy(apiKey) /\ cliLocation \in CliPaths /\ cliLocation \in fs

\* C4: with an API key configured and the CLI present, a dispatch makes
\* exactly one external invocation per distinct pending file, N invocations
\* for N files however many events each file had, and leaves no entry pending,
\* whatever the invocations' outcomes.
C4_OneInvocationPerFile ==
  [][(FlushReturned(last') /\ KeyAndCli')
       => /\ Invoked(last') = FlushSet(last', fileEntities)
          /\ Len(last'.execLog) = Cardinality(FlushSet(last', fileEntities))
          /\ fileEntities' = <<>>]_vars

\* a time-triggered flush of two pending files has made two invocations,
\* the second of which failed
C4_Witness ==
  /\ FlushReturned(last)
  /\ last.op = "trackFileEdit"
  /\ KeyAndCli
  /\ Len(last.execLog) = 2
  /\ last.execLog[1].outcome = "ok"
  /\ last.execLog[2].outcome = "nonzero"
  /\ last.elapsed = HeartbeatInterval
  /\ fileEntities = <<>>

\* C5: without an API key (config file absent, unreadable or without
\* settings.api_key) initialize does not throw, and every flush after it,
\* from trackFileEdit or from sendHeartbeat, makes no external invocation and
\* leaves no entry pending.
C5_NoKeyNoInvocation ==
  /\ (last.op = "initialize") => (initialized /\ ~last.threw)
  /\ (initialized /\ ~Truthy(apiKey) /\ FlushReturned(last))
       => (last.execLog = <<>> /\ ~last.threw /\ fileEntities = <<>>)

\* a time-triggered flush of two pending files without an API key, with the
\* CLI on disk
C5_Witness ==
  /\ FlushReturned(last)
  /\ last.op = "trackFileEdit"
  /\ ~Truthy(apiKey)
  /\ Cardinality(last.attempted) = 2
  /\ LocalCli \in fs
  /\ last.execLog = <<>>
  /\ fileEntities = <<>>

\* C6: sendHeartbeat runs the flush for every pending entity whatever the
\* time since the last flush, leaves no entry pending and sets the last-flush
\* timestamp to the current time, also when nothing was pending.
C6_ForcedFlush ==
  [][(last'.fresh /\ last'.op = "sendHeartbeat")
       => /\ last'.flushed
          /\ last'.attempted = Entities(fileEntities)
          /\ fileEntities' = <<>>
          /\ lastHeartbeatAt' = now']_vars

\* sendHeartbeat less than 60 seconds after the last flush, with nothing
\* pending, has moved the timestamp to now
C6_Witness ==
  /\ last.fresh
  /\ last.op = "sendHeartbeat"
  /\ last.elapsed > 0
  /\ last.elapsed < HeartbeatInterval
  /\ last.attempted = {}
  /\ lastHeartbeatAt = now

\* C7: a flush in which an invocation fails (exec rejects or exits nonzero)
\* does not throw to the caller, still invokes the CLI for every other
\* pending entity, leaves no entry pending and sets the last-flush timestamp
\* to now; an entity is pending after a step only if it was pending before
\* or the step tracked a write or edit of it, so a failed entity is not sent
\* again by a later flush.
C7_FailureIsolated ==
  [][/\ (FlushReturned(last')
          /\ \E i \in 1..Len(last'.execLog) : last'.execLog[i].outcome # "ok")
         => /\ ~last'.threw
            /\ Invoked(last') = FlushSet(last', fileEntities)
            /\ fileEntities' = <<>>
            /\ lastHeartbeatAt' = now'
     /\ Entities(fileEntities') \subseteq
          (IF FlushReturned(last') THEN {} ELSE Entities(fileEntities))
            \cup (IF TrackReturned(last') /\ IsWrite(last') /\ last'.existed
                  THEN {fullPathOf(last'.filePath)} ELSE {})]_vars

\* a flush whose first invocation was rejected has still made the second
C7_Witness ==
  /\ FlushReturned(last)
  /\ Len(last.execLog) = 2
  /\ last.execLog[1].outcome = "reject"
  /\ last.execLog[2].outcome = "ok"
  /\ ~last.threw
  /\ fileEntities = <<>>
  /\ lastHeartbeatAt = now

\* the first candidate path, in the documented order, that is on disk; ""
\* when none is
FirstCandidate(fsx) ==
  IF LocalCli \in fsx THEN LocalCli
  ELSE IF BrewCli \in fsx THEN BrewCli
  ELSE IF OldBrewCli \in fsx THEN OldBrewCli
  ELSE ""
LocatorReturned(l) == l.fresh /\ l.op = "getCliLocation"

\* C8: getCliLocation checks <home>/.wakatime/wakatime-cli, then
\* /opt/homebrew/bin/wakatime-cli, then /usr/local/bin/wakatime-cli and
\* returns the first that exists; a path once found stays in the cache and is
\* what every later call returns, also when a candidate of higher priority
\* has appeared since.
C8_OrderAndCache ==
  [][/\ LocatorReturned(last')
         => /\ last'.retLocation =
                 IF cliLocation \in CliPaths THEN cliLocation ELSE FirstCandidate(fs)
            /\ last'.retLocation # "" => cliLocation' = last'.retLocation
     /\ cliLocation \in CliPaths => cliLocation' = cliLocation]_vars

\* the cached /usr/local/bin path is returned while the two candidates of
\* higher priority are on disk
C8_Witness ==
  /\ LocatorReturned(last)
  /\ last.preLocation = OldBrewCli
  /\ last.retLocation = OldBrewCli
  /\ LocalCli \in fs
  /\ BrewCli \in fs

C10_Revalidates ==
  (last.fresh /\ last.op = "isCliInstalled")
    => (last.retInstalled <=> (cliLocation \in CliPaths /\ cliLocation \in fs))

\* the CLI is missing for the call just made: the path the locator held
\* before the call is gone from disk, or it held none and no candidate is on
\* disk
CliMissing(l) ==
  IF l.preLocation \in CliPaths THEN l.preLocation \notin fs
  ELSE FirstCandidate(fs) = ""

\* C11: a flush performed while the CLI binary is missing (never found, or
\* removed after it was located and memoized) makes no external invocation,
\* raises no error, leaves no entry pending and sets the last-flush timestamp
\* to now, with or without an API key.
C11_MissingCliSkips ==
  (FlushReturned(last) /\ CliMissing(last))
    => /\ last.execLog = <<>>
       /\ ~last.threw
       /\ fileEntities = <<>>
       /\ lastHeartbeatAt = now

\* the words of the configured key
KeyWords == {apiKey.val[k] : k \in 1..Len(apiKey.val)}

\* C12: every external invocation carries the configured API key in the
\* environment variable WAKATIME_API_KEY of that invocation and nowhere in
\* its argument list; the arguments are exactly --entity <absolute path of a
\* pending file>, --time <current timestamp>, --write; no invocation is made
\* without the key in its environment.
C12_KeyOnlyInEnvironment ==
  [][\A i \in 1..(IF last'.fresh THEN Len(last'.execLog) ELSE 0) :
       LET inv == last'.execLog[i]
       IN /\ inv.env.name = "WAKATIME_API_KEY"
          /\ Truthy(inv.env.value)
          /\ inv.env.value = apiKey'
          /\ Len(inv.args) = 5
          /\ inv.args[1] = "--entity"
          /\ inv.args[2] \in FlushSet(last', fileEntities)
          /\ isAbsolute(inv.args[2])
          /\ inv.args[3] = "--time"
          /\ inv.args[4] = ToString(now')
          /\ inv.args[5] = "--write"
          /\ \A j \in 1..Len(inv.args) : inv.args[j] \notin KeyWords']_vars

\* a flush has invoked the CLI for the file the host named by a relative
\* path, with the key in the environment
C12_Witness ==
  /\ FlushReturned(last)
  /\ last.filePath = "a.ts"
  /\ Len(last.execLog) = 1
  /\ last.execLog[1].args[2] = "/w/a.ts"
  /\ last.execLog[1].env.value = Some(<<"ABC">>)
  /\ last.execLog[1].cmd = LocalCli

\* what the claim says a tracked write or edit adds: the hint when it is
\* positive, else the line count the file is read with
ClaimedIncrement(l) == IF l.lineChanges > 0 THEN l.lineChanges ELSE l.readLines

\* C13: a write or edit on an existing path raises the accumulated count of
\* the resolved path by the hint when the hint is positive and by the file's
\* line count otherwise (hint zero, absent or negative), leaves the count of
\* every other pending path as it was, and no count decreases between
\* flushes.
C13_HintOrFallback ==
  [][/\ (TrackReturned(last') /\ IsWrite(last') /\ last'.existed /\ ~last'.flushed)
         => LET full == fullPathOf(last'.filePath)
            IN /\ getChanges(fileEntities', full)
                    = getChanges(fileEntities, full) + ClaimedIncrement(last')
               /\ \A e \in WorkFiles \ {full} :
                    getChanges(fileEntities', e) = getChanges(fileEntities, e)
     /\ (last'.fresh /\ ~last'.flushed)
         => \A e \in WorkFiles :
              getChanges(fileEntities', e) >= getChanges(fileEntities, e)]_vars

\* the state right after a trackToolUsage call returned or threw
ToolReturned(l) == l.fresh /\ l.op = "trackToolUsage"
\* the fields of an args object that are there
PresentFields(a) == {v \in {a.filePath, a.file_path, a.path} : Present(v)}
\* the args name one file, by a string in one of the three fields
NamesOnePath(a) ==
  /\ a.defined
  /\ Cardinality(PresentFields(a)) = 1
  /\ \A v \in PresentFields(a) : IsString(v)
ThePath(a) == CHOOSE v \in PresentFields(a) : TRUE
ReadTools == {"read", "read_file"}
WriteTools == {"write", "write_file", "edit", "replace"}

\* C14: with the path of an existing file in one of the fields filePath,
\* file_path or path, trackToolUsage tracks a read for the tools read and
\* read_file (a flush from 60 seconds on, nothing added), and a write or
\* edit for the tools write, write_file, edit and replace (the file is
\* pending afterwards, or was handed to the flush the call ran); any other
\* tool name changes no state.
C14_ToolMapping ==
  [][ToolReturned(last')
       => LET a == last'.args
              full == fullPathOf(ThePath(a))
          IN /\ (NamesOnePath(a) /\ exists(fs, ThePath(a))
                    /\ last'.toolName \in ReadTools)
                  => /\ last'.flushed <=> last'.elapsed >= HeartbeatInterval
                     /\ last'.attempted = Entities(fileEntities)
                           \cap (IF last'.flushed THEN WorkFiles ELSE {})
                     /\ ~last'.flushed => fileEntities' = fileEntities
             /\ (NamesOnePath(a) /\ exists(fs, ThePath(a))
                    /\ last'.toolName \in WriteTools)
                  => /\ last'.flushed <=> last'.elapsed >= HeartbeatInterval
                     /\ IF last'.flushed THEN full \in last'.attempted
                        ELSE /\ full \in Entities(fileEntities')
                             /\ getChanges(fileEntities', full)
                                  >= getChanges(fileEntities, full)
             /\ last'.toolName \notin ReadTools \cup WriteTools
                  => /\ UNCHANGED <<callbacks, ledger, fileEntities, lastHeartbeatAt, cliLocation>>
                     /\ last'.execLog = <<>>]_vars

\* the args are undefined, or name no path, or hold a value that is not a
\* string where the path is looked for
NoUsablePath(a) ==
  \/ ~a.defined
  \/ PresentFields(a) = {}
  \/ \E v \in PresentFields(a) : ~IsString(v)

\* C15: trackToolUsage called without an args object, without a file-path
\* field or with a file-path value that is not a string raises no error,
\* changes neither the pending entries nor the last-flush timestamp and
\* invokes nothing.
C15_MalformedIgnored ==
  [][(ToolReturned(last') /\ NoUsablePath(last'.args))
       => /\ ~last'.threw
          /\ fileEntities' = fileEntities
          /\ lastHeartbeatAt' = lastHeartbeatAt
          /\ last'.execLog = <<>>]_vars

\* the lines of a config text, and the parts the claims speak of: a section
\* header, the section a line lies in, and the key and the value of a line,
\* before and after its first '='
LinesOf(text) == split(text, NL)
IsHeader(line) ==
  LET t == trim(line) IN Len(t) >= 2 /\ t[1] = "[" /\ t[Len(t)] = "]"
HeaderName(line) ==
  LET t == trim(line) IN toLowerCase(SubSeq(t, 2, Len(t) - 1))
Last(S) == CHOOSE j \in S : \A k \in S : k <= j
SectionAt(lines, i) ==
  LET hs == {j \in 1..(i - 1) : IsHeader(lines[j])}
  IN IF hs = {} THEN <<>> ELSE HeaderName(lines[Last(hs)])
EqualSigns(line) == {j \in 1..Len(line) : line[j] = "="}
First(S) == CHOOSE j \in S : \A k \in S : j <= k
KeyOf(line) == trim(SubSeq(line, 1, First(EqualSigns(line)) - 1))
ValueOf(line) == trim(SubSeq(line, First(EqualSigns(line)) + 1, Len(line)))
\* the lines "key = value" of the section
SettingLines(text, section, key) ==
  LET lines == LinesOf(text)
  IN {i \in 1..Len(lines) :
        /\ ~IsHeader(lines[i])
        /\ EqualSigns(lines[i]) # {}
        /\ KeyOf(lines[i]) = key
        /\ SectionAt(lines, i) = section}
SettingReturned(l) == l.fresh /\ l.op = "getSetting"

\* C16: when the loaded config text has a line key = value inside the
\* section asked for, getSetting returns the whole value of the first such
\* line: everything after the first '=', surrounding blanks trimmed and null
\* characters removed, also when the value contains '=' and whatever the
\* letter case of the section name in the file.
C16_WholeValue ==
  (SettingReturned(last) /\ configCache.def
     /\ SettingLines(configCache.val, last.section, last.key) # {})
    => LET lines == LinesOf(configCache.val)
           i == First(SettingLines(configCache.val, last.section, last.key))
       IN last.retSetting = Some(removeNulls(ValueOf(lines[i])))

\* C17: when no config was loaded, or the loaded text has no line with the
\* key inside the section asked for (the section is missing, the key is
\* missing, or the key stands only under another section), getSetting
\* returns the absent result and does not throw.
C17_AbsentResult ==
  (SettingReturned(last)
     /\ (configCache.def
           => SettingLines(configCache.val, last.section, last.key) = {}))
    => (last.retSetting = undefined /\ ~last.threw)

\* api_key was asked for in [settings] of a file that has it under [other]
\* only
C17_Witness ==
  /\ SettingReturned(last)
  /\ configCache = Some(TextOtherSection)
  /\ last.section = <<"settings">>
  /\ last.key = <<"api_key">>
  /\ last.retSetting = undefined

StatusReturned(l) == l.fresh /\ l.op = "getStatus"

\* C18, as stated: getStatus never throws; before initialize has returned
\* it answers the initializing message and afterwards the status report;
\* it changes neither the pending entries nor the last-flush timestamp and
\* invokes nothing.
C18_AsStated ==
  [][StatusReturned(last')
       => /\ ~last'.threw
          /\ last'.retStatus.kind
               = (IF initialized THEN "report" ELSE "initializing")
          /\ fileEntities' = fileEntities
          /\ lastHeartbeatAt' = lastHeartbeatAt
          /\ last'.execLog = <<>>]_vars

\* C18, amended: getStatus never throws; it answers the initializing
\* message as long as initialize has not created the locator, and the status
\* report from then on, also while initialize is still waiting in
\* checkAndInstallCli; the report tells the pending count and the timestamp
\* as they are; the call changes neither of them and invokes nothing.
C18_StatusFrame ==
  [][StatusReturned(last')
       => /\ ~last'.threw
          /\ last'.retStatus.kind
               = (IF initPhase = "constructed" THEN "initializing" ELSE "report")
          /\ (build = "modular" /\ last'.retStatus.kind = "report")
               => /\ last'.retStatus.pending = Len(fileEntities)
                  /\ last'.retStatus.lastHeartbeat = lastHeartbeatAt
          /\ fileEntities' = fileEntities
          /\ lastHeartbeatAt' = lastHeartbeatAt
          /\ last'.execLog = <<>>]_vars

\* the status asked for while initialize waits in checkAndInstallCli is the
\* report
C18_Witness ==
  /\ StatusReturned(last)
  /\ initPhase = "checking"
  /\ last.retStatus.kind = "report"
  /\ last.retStatus.apiKey

\* C19: no call of the host ends with an error, whichever adapter call
\* fails (existence check, file read or process execution), and a call that
\* ran the flush leaves no entry pending and sets the last-flush timestamp
\* to now.
C19_NoErrorToHost ==
  [][last'.fresh
       => /\ ~last'.threw
          /\ last'.flushed
               => (fileEntities' = <<>> /\ lastHeartbeatAt' = now')]_vars

\* C20: lastHeartbeatAt starts at 0, so the first trackFileEdit on an
\* existing path (no flush has run yet) flushes at once whatever the
\* operation: nothing is pending afterwards, the file of a write or edit has
\* been handed to the flush, with exactly one invocation when key and CLI are
\* there; and a sendHeartbeat that follows a flushing trackFileEdit at once
\* finds nothing pending and invokes nothing.
C20_FirstEventFlushes ==
  [][/\ (TrackReturned(last') /\ last'.existed
           /\ lastHeartbeatAt = InitialLastHeartbeatAt)
         => /\ last'.flushed
            /\ fileEntities' = <<>>
            /\ lastHeartbeatAt' = now'
            /\ IsWrite(last')
                 => /\ last'.attempted = {fullPathOf(last'.filePath)}
                    /\ KeyAndCli' => Len(last'.execLog) = 1
            /\ ~IsWrite(last') => last'.execLog = <<>>
     /\ (TrackReturned(last) /\ last.flushed
           /\ last'.fresh /\ last'.op = "sendHeartbeat")
         => /\ last'.attempted = {}
            /\ last'.execLog = <<>>]_vars

\* the first trackFileEdit, a write of the existing /w/b.ts, has flushed
\* with one invocation
C20_Witness ==
  /\ TrackReturned(last)
  /\ IsWrite(last)
  /\ last.existed
  /\ last.elapsed = now - InitialLastHeartbeatAt
  /\ last.flushed
  /\ Len(last.execLog) = 1
  /\ last.execLog[1].entity = "/w/b.ts"
  /\ fileEntities = <<>>

\* the callbacks whose flush is suspended inside sendSingleHeartbeat
Flushing == {c \in Callbacks : callbacks[c].pc = "sending"}

\* C21: when host callbacks overlap, at most one flush is in progress at
\* any time, and no pending entry (an entity with the change count it has
\* accumulated) is handed to the CLI by the flushes of two callbacks before
\* it is cleared.
C21_SingleFlight ==
  /\ Cardinality(Flushing) <= 1
  /\ \A a \in ledger.attempts, b \in ledger.attempts :
       (a.invoked /\ b.invoked /\ a.entity = b.entity /\ a.changes = b.changes)
         => a.callback = b.callback

\* C22: no tracked activity is dropped without a dispatch attempt: when the
\* pending entries are cleared, every entity among them has had a call of
\* sendSingleHeartbeat (an invocation of the CLI or a logged skip) that
\* started after its latest write or edit was recorded, also when that
\* write or edit came while the flush of another callback was suspended.
C22_NoDrop == ledger.dropped = {}

====
